---- MODULE Spec2Model ----
(***************************************************************************)
(* Model of the issue bot .github/workflows/issues.py: one run of main()   *)
(* on one item, as a state machine.  Python strings are TLA+ strings; the  *)
(* str and re operations the bot uses are computed character by character. *)
(*                                                                         *)
(* The hosting platform is reached through the API client only: get_issue  *)
(* (line 285), issue.add_to_labels (line 192), issue.create_comment (line  *)
(* 271) and issue.edit (line 272).  Each of these calls either succeeds or *)
(* raises, and the bot catches nothing.  has_label() (lines 145-147) reads *)
(* issue.labels, an attribute of the object fetched once at line 285; the  *)
(* bot never fetches the item again and discards what add_to_labels()      *)
(* returns, so whether issue.labels shows a label added during the run is  *)
(* the client's doing.  Both clients are modelled (refreshes).             *)
(***************************************************************************)
EXTENDS Integers, Sequences, FiniteSets, TLC

VARIABLES
    listdir,        \* os.listdir(SCRIPTS_DIR), read once at import (line 95)
    module,         \* issue.__module__ of the object get_issue() returned
    title,          \* issue.title
    body,           \* issue.body
    comments,       \* issue.comments when fetched
    labels,         \* names in issue.labels, the attribute has_label() reads
    refreshes,      \* whether the client's add_to_labels() also updates issue.labels
    fetched_labels, \* labels on the item when it was fetched
    remote_labels,  \* labels on the item at the hosting platform
    remote_state,   \* "open" or "closed" at the hosting platform
    pc,             \* position in main()
    text,           \* argument of the running _guess_labels_from_text()
    guessed,        \* the (label, keyword) pairs that call yielded, in order
    todo,           \* candidate labels still to be handed to add_label()
    calls,          \* API calls issued so far, in order
    proposals,      \* add_label() invocations so far, in order
    exit            \* "running", "exit0", or the name of the uncaught error

vars == <<listdir, module, title, body, comments, labels, refreshes,
          fetched_labels, remote_labels, remote_state, pc, text, guessed,
          todo, calls, proposals, exit>>

(* Bounds of the model. *)
MaxComments == 1
MaxAppend == 2

(***************************************************************************)
(* Python str operations.                                                  *)
(***************************************************************************)
ascii_uppercase == "ABCDEFGHIJKLMNOPQRSTUVWXYZ"
ascii_lowercase == "abcdefghijklmnopqrstuvwxyz"

\* str.lower() on one character: the upper-case letters map to their
\* lower-case counterparts, every other character maps to itself
upper_to_lower ==
    [c \in {SubSeq(ascii_uppercase, i, i) : i \in 1..Len(ascii_uppercase)} |->
        LET i == CHOOSE i \in 1..Len(ascii_uppercase) :
                     SubSeq(ascii_uppercase, i, i) = c
        IN  SubSeq(ascii_lowercase, i, i)]

char_lower(c) == IF c \in DOMAIN upper_to_lower THEN upper_to_lower[c] ELSE c

RECURSIVE lower(_)
\* s.lower()
lower(s) ==
    IF Len(s) = 0 THEN ""
    ELSE char_lower(SubSeq(s, 1, 1)) \o lower(SubSeq(s, 2, Len(s)))

\* sub in s
str_in(sub, s) ==
    \E i \in 1..(Len(s) - Len(sub) + 1) : SubSeq(s, i, i + Len(sub) - 1) = sub

\* s.startswith(prefix, at i), 1-based
startswith_at(s, prefix, i) ==
    /\ i + Len(prefix) - 1 <= Len(s)
    /\ SubSeq(s, i, i + Len(prefix) - 1) = prefix

\* s.endswith(suffix)
endswith(s, suffix) ==
    /\ Len(suffix) <= Len(s)
    /\ SubSeq(s, Len(s) - Len(suffix) + 1, Len(s)) = suffix

RECURSIVE replace_spaces(_)
\* s.replace(' ', '')
replace_spaces(s) ==
    IF Len(s) = 0 THEN ""
    ELSE (IF SubSeq(s, 1, 1) = " " THEN "" ELSE SubSeq(s, 1, 1))
             \o replace_spaces(SubSeq(s, 2, Len(s)))

(***************************************************************************)
(* Constants of the bot.                                                   *)
(***************************************************************************)
LABELS_MAP == <<
    [label |-> "linux", keywords |-> <<"linux", "ubuntu", "redhat", "mint",
        "centos", "red hat", "archlinux", "debian", "alpine", "gentoo",
        "fedora", "slackware", "suse", "RHEL", "opensuse", "manylinux",
        "apt ", "apt-", "rpm", "yum", "kali", "/sys/class", "/proc/net",
        "/proc/disk", "/proc/smaps", "/proc/vmstat">>],
    [label |-> "windows", keywords |-> <<"windows", "win32", "WinError",
        "WindowsError", "win10", "win7", "win ", "mingw", "msys", "studio",
        "microsoft", "make.bat", "CloseHandle", "GetLastError", "NtQuery",
        "DLL", "MSVC", "TCHAR", "WCHAR", ".bat", "OpenProcess",
        "TerminateProcess", "appveyor", "windows error", "NtWow64",
        "NTSTATUS", "Visual Studio">>],
    [label |-> "macos", keywords |-> <<"macos", "mac ", "osx", "os x",
        "mojave", "sierra", "capitan", "yosemite", "catalina", "mojave",
        "big sur", "xcode", "darwin", "dylib">>],
    [label |-> "aix", keywords |-> <<"aix">>],
    [label |-> "cygwin", keywords |-> <<"cygwin">>],
    [label |-> "freebsd", keywords |-> <<"freebsd">>],
    [label |-> "netbsd", keywords |-> <<"netbsd">>],
    [label |-> "openbsd", keywords |-> <<"openbsd">>],
    [label |-> "sunos", keywords |-> <<"sunos", "solaris">>],
    [label |-> "wsl", keywords |-> <<"wsl">>],
    [label |-> "unix", keywords |-> <<"psposix", "_psutil_posix",
        "waitpid", "statvfs", "/dev/tty", "/dev/pts">>],
    [label |-> "pypy", keywords |-> <<"pypy">>],
    [label |-> "enhancement", keywords |-> <<"enhancement">>],
    [label |-> "memleak", keywords |-> <<"memory leak", "leaks memory",
        "memleak", "mem leak">>],
    [label |-> "api", keywords |-> <<"idea", "proposal", "api", "feature">>],
    [label |-> "performance", keywords |-> <<"performance", "speedup",
        "speed up", "slow", "fast">>],
    [label |-> "wheels", keywords |-> <<"wheel", "wheels">>],
    [label |-> "scripts", keywords |-> <<"example script",
        "examples script", "example dir", "scripts/">>],
    [label |-> "bug", keywords |-> <<"fail", "can't execute",
        "can't install", "cannot execute", "cannot install",
        "install error", "crash", "critical">>],
    [label |-> "doc", keywords |-> <<"doc ", "document ", "documentation",
        "readthedocs", "pythonhosted", "HISTORY", "README", "dev guide",
        "devguide", "sphinx", "docfix", "index.rst">>],
    [label |-> "tests", keywords |-> <<" test ", "tests", "travis",
        "coverage", "cirrus", "appveyor", "continuous integration",
        "unittest", "pytest", "unit test">>],
    [label |-> "priority-high", keywords |-> <<"WinError", "WindowsError",
        "RuntimeError", "ZeroDivisionError", "SystemError", "MemoryError",
        "core dumped", "segfault", "segmentation fault">>]
  >>

ILLOGICAL_PAIRS == <<
    <<"bug", "enhancement">>,
    <<"doc", "tests">>,
    <<"scripts", "doc">>,
    <<"scripts", "tests">>,
    <<"bsd", "freebsd">>,
    <<"bsd", "openbsd">>,
    <<"bsd", "netbsd">>
  >>

\* LABELS_MAP after the scripts directory listing is folded in (lines 94-95)
labels_map(listing) ==
    [i \in DOMAIN LABELS_MAP |->
        IF LABELS_MAP[i].label = "scripts"
        THEN [label |-> "scripts",
              keywords |-> LABELS_MAP[i].keywords
                  \o SelectSeq(listing, LAMBDA x : endswith(x, ".py"))]
        ELSE LABELS_MAP[i]]

(***************************************************************************)
(* Label inference.                                                        *)
(***************************************************************************)
\* the test of line 198 with the keyword left as written in the catalog
keyword_as_written(keyword, lt) == str_in(keyword, lt)

\* the test of line 198, lt being text.lower()
keyword_matches(keyword, lt) == str_in(lower(keyword), lt)

\* the inner loop of _guess_labels_from_text, for one label
guess_for_label(rule, lt) ==
    LET hits == SelectSeq(rule.keywords, LAMBDA k : keyword_matches(k, lt))
    IN  [j \in 1..Len(hits) |-> <<rule.label, hits[j]>>]

RECURSIVE guess_from(_, _, _)
\* the outer loop, from the n-th label of the catalog on
guess_from(map, n, lt) ==
    IF n > Len(map) THEN <<>>
    ELSE guess_for_label(map[n], lt) \o guess_from(map, n + 1, lt)

\* list(_guess_labels_from_text(issue, t)) under the catalog map
guess_labels_from_text(map, t) == guess_from(map, 1, lower(t))

(***************************************************************************)
(* Utilities of the bot.                                                   *)
(***************************************************************************)
is_pr(m) == str_in("PullRequest", m)

is_issue(m) == ~is_pr(m)

is_new(n) == n = 0

is_comment(n) == ~is_new(n)

has_label(assigned, label) == label \in assigned

RECURSIVE count_char(_, _)
count_char(s, c) ==
    IF Len(s) = 0 THEN 0
    ELSE (IF SubSeq(s, 1, 1) = c THEN 1 ELSE 0)
             + count_char(SubSeq(s, 2, Len(s)), c)

\* fmt % arg with nargs arguments raises TypeError ("not all arguments
\* converted during string formatting") unless fmt converts each of them
format_raises(fmt, nargs) == count_char(fmt, "%") # nargs

\* re.search(prefix + r".*?\n", s): the leftmost place where prefix is
\* followed, on the same line, by a line feed; group is the matched text
re_search(prefix, s) ==
    LET eol(i) == {j \in (i + Len(prefix))..Len(s) : SubSeq(s, j, j) = "\n"}
        at == {i \in 1..Len(s) : startswith_at(s, prefix, i) /\ eol(i) # {}}
    IN  IF at = {} THEN [found |-> FALSE, group |-> ""]
        ELSE LET i == CHOOSE i \in at : \A k \in at : i <= k
                 j == CHOOSE j \in eol(i) : \A k \in eol(i) : j <= k
             IN  [found |-> TRUE, group |-> SubSeq(s, i, j)]

\* should_add() of add_label: "True", "False", or the error it raises
should_add(assigned, label) ==
    IF has_label(assigned, label) THEN "False"
    ELSE IF \E i \in DOMAIN ILLOGICAL_PAIRS :
                /\ label = ILLOGICAL_PAIRS[i][1]
                /\ has_label(assigned, ILLOGICAL_PAIRS[i][2])
         THEN (IF format_raises("already has label", 1)
               THEN "TypeError" ELSE "False")
         ELSE (IF ~has_label(assigned, label) THEN "True" ELSE "False")

\* the label the "Bug fix" line of the body proposes (lines 220-232)
bugfix_labels(m, assigned, s) ==
    LET r == re_search("* Bug fix:", s)
    IN  IF /\ is_pr(m)
           /\ r.found
           /\ ~has_label(assigned, "bug")
           /\ ~has_label(assigned, "enhancement")
        THEN (IF str_in("yes", lower(r.group))
              THEN <<"bug">> ELSE <<"enhancement">>)
        ELSE <<>>

TYPE_LABELS ==
    <<"doc", "performance", "scripts", "tests", "wheels", "new-api",
      "new-platform">>

\* the labels the "Type" line of the body proposes (lines 236-255)
type_labels(s) ==
    LET r == re_search("* Type:", s)
    IN  IF r.found
        THEN SelectSeq(TYPE_LABELS, LAMBDA x : str_in(x, lower(r.group)))
        ELSE <<>>

\* the condition of on_new_issue (lines 262-269)
missing_python_h(t, b) ==
    LET has_text(x) == str_in(x, lower(t)) \/ str_in(x, lower(b))
    IN  \/ has_text("missing python.h")
        \/ has_text("python.h: no such file or directory")
        \/ str_in("#include<Python.h>\n^~~~", replace_spaces(b))
        \/ str_in("#include<Python.h>\r\n^~~~", replace_spaces(b))

(***************************************************************************)
(* The items and environments the runs are checked on.                     *)
(***************************************************************************)
Listdirs == {<<>>, <<"top.py", "internal">>}

Modules == {"github.Issue", "github.PullRequest"}

Titles ==
    {"",
     "psutil on ubuntu linux",
     "missing Python.h on build",
     "enhancement: crash in tests",
     "WinError on win10"}

Bodies ==
    {"",
     "* OS: FreeBSD\n* Bug fix: yes\n* Type: doc, tests\n",
     "* OS: Ubuntu linux\n* Bug fix: no\n* Type: doc, scripts\n",
     "gcc: fatal error: Python.h: No such file or directory\n",
     "#include <Python.h>\r\n         ^~~~~~~~~\n* Type: new-api, wheels\n",
     "* Bug fix: yes",
     "see top.py\n* Type: performance, new-platform\n"}

LabelSets == {{}, {"tests"}, {"bug"}, {"enhancement"}, {"doc", "linux"}}

Phases == {"title_labels", "os_labels", "bugfix_labels", "type_labels"}

(***************************************************************************)
(* One run of main().                                                      *)
(***************************************************************************)
Init ==
    /\ listdir \in Listdirs
    /\ module \in Modules
    /\ title \in Titles
    /\ body \in Bodies
    /\ comments \in 0..MaxComments
    /\ refreshes \in BOOLEAN
    /\ fetched_labels \in LabelSets
    /\ remote_labels = fetched_labels
    /\ remote_state = "open"
    /\ labels = {}
    /\ pc = "get_issue"
    /\ text = ""
    /\ guessed = <<>>
    /\ todo = <<>>
    /\ calls = <<>>
    /\ proposals = <<>>
    /\ exit = "running"

item == <<listdir, module, title, body, comments, refreshes, fetched_labels>>

call(op, arg, ok) == [op |-> op, arg |-> arg, ok |-> ok, at |-> pc]

\* an API call raised: nothing catches it, the process ends (lines 302-303)
uncaught(op, arg) ==
    /\ calls' = Append(calls, call(op, arg, FALSE))
    /\ exit' = "GithubException"
    /\ pc' = "done"

\* the label of each pair a _guess_labels_from_text() call yielded
labels_of(pairs) == [i \in DOMAIN pairs |-> pairs[i][1]]

\* line 285
get_issue ==
    /\ pc = "get_issue"
    /\ labels' = remote_labels
    /\ calls' = Append(calls, call("get_issue", "", TRUE))
    /\ pc' = "main"
    /\ UNCHANGED <<item, remote_labels, remote_state, text, guessed, todo,
                   proposals, exit>>

get_issue_fails ==
    /\ pc = "get_issue"
    /\ uncaught("get_issue", "")
    /\ UNCHANGED <<item, labels, remote_labels, remote_state, text, guessed,
                   todo, proposals>>

\* lines 289-291: a new item; add_labels_from_text(issue, issue.title) starts
new_item ==
    /\ pc = "main"
    /\ is_new(comments)
    /\ text' = title
    /\ guessed' = guess_labels_from_text(labels_map(listdir), title)
    /\ todo' = labels_of(guessed')
    /\ pc' = "title_labels"
    /\ UNCHANGED <<item, labels, remote_labels, remote_state, calls,
                   proposals, exit>>

\* lines 297-299: a comment event
new_comment ==
    /\ pc = "main"
    /\ ~is_new(comments)
    /\ exit' = IF format_raises("new comment: \n", 1)
               THEN "TypeError" ELSE "exit0"
    /\ pc' = "done"
    /\ UNCHANGED <<item, labels, remote_labels, remote_state, text, guessed,
                   todo, calls, proposals>>

\* one add_label() invocation: the candidate, where main() was, the names
\* in issue.labels at that moment, and how the invocation ended
proposal(label, result) ==
    [label |-> label, at |-> pc, known |-> labels, result |-> result]

\* add_label(issue, Head(todo)), the add_to_labels call succeeding
add_label ==
    /\ pc \in Phases
    /\ todo # <<>>
    /\ LET label == Head(todo)
           verdict == should_add(labels, label)
       IN  CASE verdict = "True" ->
                  /\ calls' = Append(calls, call("add_to_labels", label, TRUE))
                  /\ remote_labels' = remote_labels \cup {label}
                  /\ labels' = IF refreshes THEN labels \cup {label}
                                            ELSE labels
                  /\ proposals' = Append(proposals, proposal(label, "added"))
                  /\ todo' = Tail(todo)
                  /\ UNCHANGED <<pc, exit>>
             [] verdict = "False" ->
                  /\ proposals' = Append(proposals, proposal(label, "skipped"))
                  /\ todo' = Tail(todo)
                  /\ UNCHANGED <<pc, exit, calls, remote_labels, labels>>
             [] OTHER ->
                  /\ proposals' = Append(proposals, proposal(label, "raised"))
                  /\ exit' = verdict
                  /\ pc' = "done"
                  /\ UNCHANGED <<todo, calls, remote_labels, labels>>
    /\ UNCHANGED <<item, remote_state, text, guessed>>

\* add_label(issue, Head(todo)), the add_to_labels call raising
add_label_fails ==
    /\ pc \in Phases
    /\ todo # <<>>
    /\ should_add(labels, Head(todo)) = "True"
    /\ proposals' = Append(proposals, proposal(Head(todo), "failed"))
    /\ uncaught("add_to_labels", Head(todo))
    /\ UNCHANGED <<item, labels, remote_labels, remote_state, text, guessed,
                   todo>>

\* lines 210-216: the "OS" line of the body
os_line ==
    /\ pc = "title_labels"
    /\ todo = <<>>
    /\ LET r == re_search("* OS:", body)
       IN  IF r.found
           THEN /\ text' = r.group
                /\ guessed' = guess_labels_from_text(labels_map(listdir),
                                                     r.group)
                /\ todo' = labels_of(guessed')
           ELSE UNCHANGED <<text, guessed, todo>>
    /\ pc' = "os_labels"
    /\ UNCHANGED <<item, labels, remote_labels, remote_state, calls,
                   proposals, exit>>

\* lines 219-232: the "Bug fix" line of the body
bugfix_line ==
    /\ pc = "os_labels"
    /\ todo = <<>>
    /\ todo' = bugfix_labels(module, labels, body)
    /\ pc' = "bugfix_labels"
    /\ UNCHANGED <<item, labels, remote_labels, remote_state, text, guessed,
                   calls, proposals, exit>>

\* lines 235-255: the "Type" line of the body
type_line ==
    /\ pc = "bugfix_labels"
    /\ todo = <<>>
    /\ todo' = type_labels(body)
    /\ pc' = "type_labels"
    /\ UNCHANGED <<item, labels, remote_labels, remote_state, text, guessed,
                   calls, proposals, exit>>

\* on_new_issue run for every new item, pull requests included
on_new_issue_any_kind ==
    /\ pc = "type_labels"
    /\ todo = <<>>
    /\ IF missing_python_h(title, body)
       THEN pc' = "create_comment" /\ UNCHANGED exit
       ELSE pc' = "done" /\ exit' = "exit0"
    /\ UNCHANGED <<item, labels, remote_labels, remote_state, text, guessed,
                   todo, calls, proposals>>

\* lines 293-294 and 261-270: on_new_issue up to its condition
on_new_issue ==
    /\ pc = "type_labels"
    /\ todo = <<>>
    /\ is_issue(module)
    /\ IF missing_python_h(title, body)
       THEN pc' = "create_comment" /\ UNCHANGED exit
       ELSE pc' = "done" /\ exit' = "exit0"
    /\ UNCHANGED <<item, labels, remote_labels, remote_state, text, guessed,
                   todo, calls, proposals>>

\* lines 295-296 and 276-277
on_new_pr ==
    /\ pc = "type_labels"
    /\ todo = <<>>
    /\ is_pr(module)
    /\ pc' = "done"
    /\ exit' = "exit0"
    /\ UNCHANGED <<item, labels, remote_labels, remote_state, text, guessed,
                   todo, calls, proposals>>

\* line 271
create_comment ==
    /\ pc = "create_comment"
    /\ calls' = Append(calls, call("create_comment",
                                   "REPLY_MISSING_PYTHON_HEADERS", TRUE))
    /\ pc' = "edit"
    /\ UNCHANGED <<item, labels, remote_labels, remote_state, text, guessed,
                   todo, proposals, exit>>

\* a failed create_comment that is caught, the run going on to line 272
create_comment_fails_caught ==
    /\ pc = "create_comment"
    /\ calls' = Append(calls, call("create_comment",
                                   "REPLY_MISSING_PYTHON_HEADERS", FALSE))
    /\ pc' = "edit"
    /\ UNCHANGED <<item, labels, remote_labels, remote_state, text, guessed,
                   todo, proposals, exit>>

\* line 271, the call raising
create_comment_fails ==
    /\ pc = "create_comment"
    /\ uncaught("create_comment", "REPLY_MISSING_PYTHON_HEADERS")
    /\ UNCHANGED <<item, labels, remote_labels, remote_state, text, guessed,
                   todo, proposals>>

\* lines 272-273, then main returns
edit ==
    /\ pc = "edit"
    /\ calls' = Append(calls, call("edit", "closed", TRUE))
    /\ remote_state' = "closed"
    /\ pc' = "done"
    /\ exit' = "exit0"
    /\ UNCHANGED <<item, labels, remote_labels, text, guessed, todo,
                   proposals>>

edit_fails ==
    /\ pc = "edit"
    /\ uncaught("edit", "closed")
    /\ UNCHANGED <<item, labels, remote_labels, remote_state, text, guessed,
                   todo, proposals>>

Next ==
    \/ get_issue
    \/ get_issue_fails
    \/ new_item
    \/ new_comment
    \/ add_label
    \/ add_label_fails
    \/ os_line
    \/ bugfix_line
    \/ type_line
    \/ on_new_issue
    \/ on_new_pr
    \/ create_comment
    \/ create_comment_fails
    \/ edit
    \/ edit_fails

Spec == Init /\ [][Next]_vars

(***************************************************************************)
(* Label inference on its own: _guess_labels_from_text() applied to texts  *)
(* made of a seed followed by up to MaxAppend characters of Alphabet.      *)
(***************************************************************************)
Alphabet == {"a", "i", "x", "I", "X", " "}

Seeds ==
    {"", "a", "WinError at appveyor", "README for RHEL", "mac os",
     "run top.py"}

RECURSIVE Suffixes(_)
Suffixes(n) ==
    IF n = 0 THEN {""}
    ELSE LET S == Suffixes(n - 1)
         IN  S \cup {x \o c : x \in S, c \in Alphabet}

InitGuess ==
    /\ listdir \in Listdirs
    /\ text \in {x \o y : x \in Seeds, y \in Suffixes(MaxAppend)}
    /\ guessed = <<>>
    /\ pc = "guess"
    /\ module = "github.Issue"
    /\ title = ""
    /\ body = ""
    /\ comments = 0
    /\ refreshes = FALSE
    /\ fetched_labels = {}
    /\ remote_labels = {}
    /\ remote_state = "open"
    /\ labels = {}
    /\ todo = <<>>
    /\ calls = <<>>
    /\ proposals = <<>>
    /\ exit = "running"

\* list(_guess_labels_from_text(issue, text))
guess ==
    /\ pc = "guess"
    /\ guessed' = guess_labels_from_text(labels_map(listdir), text)
    /\ pc' = "guessed"
    /\ UNCHANGED <<item, text, labels, remote_labels, remote_state, todo,
                   calls, proposals, exit>>

NextGuess == guess

SpecGuess == InitGuess /\ [][NextGuess]_vars

(***************************************************************************)
(* The claims.                                                             *)
(***************************************************************************)
ApiFailed == \E i \in DOMAIN calls : ~calls[i].ok

Pairs == {ILLOGICAL_PAIRS[i] : i \in DOMAIN ILLOGICAL_PAIRS}

\* the labels the item carried just before the i-th API call
CarriedBefore(i) ==
    fetched_labels \cup
        {calls[j].arg : j \in {k \in 1..(i - 1) :
                                 calls[k].op = "add_to_labels" /\ calls[k].ok}}

\* the labels the item carried when main() entered phase ph
CarriedAt(ph) ==
    fetched_labels \cup
        {calls[j].arg : j \in {k \in DOMAIN calls :
                                 /\ calls[k].op = "add_to_labels"
                                 /\ calls[k].ok
                                 /\ calls[k].at # ph}}

\* the candidates handed to add_label() in phase ph, in order
ProposedAt(ph) ==
    LET at == SelectSeq(proposals, LAMBDA q : q.at = ph)
    IN  [i \in DOMAIN at |-> at[i].label]

\* C1: within a run, at most one add-label call is issued for any label,
\* and a second add_label() invocation for the same label is rejected by
\* the guard.
C1_OneAddCallPerLabel ==
    /\ \A i, j \in DOMAIN calls :
          (/\ calls[i].op = "add_to_labels"
           /\ calls[j].op = "add_to_labels"
           /\ calls[i].arg = calls[j].arg) => i = j
    /\ \A i, j \in DOMAIN proposals :
          (i < j /\ proposals[i].label = proposals[j].label)
              => proposals[j].result = "skipped"

\* C2: no add-label call is issued for the left label of an illogical pair
\* while the item carries the right label, whether the right label was on
\* the item when fetched or was attached earlier in the same run.
C2_NoLeftAfterRight ==
    \A i \in DOMAIN calls : \A pr \in Pairs :
        (calls[i].op = "add_to_labels" /\ calls[i].arg = pr[1])
            => pr[2] \notin CarriedBefore(i)

\* C3: once the "Bug fix" field was evaluated: on a PR whose body has the
\* line and which carries neither "bug" nor "enhancement" at that moment,
\* exactly one label is proposed, "bug" if the line contains "yes"
\* (case-insensitively) and "enhancement" otherwise; on an issue, or when
\* the item carries "bug" or "enhancement", nothing is proposed.
C3_BugFixDecision ==
    pc = "bugfix_labels" =>
        LET r == re_search("* Bug fix:", body)
            carried == CarriedAt("bugfix_labels")
            field == ProposedAt("bugfix_labels") \o todo
        IN  /\ (/\ module = "github.PullRequest"
                /\ r.found
                /\ carried \cap {"bug", "enhancement"} = {})
                   => field = IF str_in("yes", lower(r.group))
                              THEN <<"bug">> ELSE <<"enhancement">>
            /\ (\/ module = "github.Issue"
                \/ carried \cap {"bug", "enhancement"} # {})
                   => field = <<>>

\* C4: a run on a new issue that matches a missing-header pattern, and in
\* which no API call fails, issues its add-label calls first, then exactly
\* one create-comment call, then exactly one state change to closed, and
\* nothing afterwards.
C4_LabelsThenReplyThenClose ==
    (/\ pc = "done"
     /\ ~ApiFailed
     /\ Len(calls) > 0
     /\ module = "github.Issue"
     /\ comments = 0
     /\ missing_python_h(title, body))
        => /\ Len(calls) >= 3
           /\ calls[Len(calls)].op = "edit"
           /\ calls[Len(calls) - 1].op = "create_comment"
           /\ \A i \in 2..(Len(calls) - 2) : calls[i].op = "add_to_labels"

\* C5: a create-comment call or a change of state to closed happens only
\* for an issue with zero comments whose title/body matches one of the
\* missing-header patterns.
C5_ReplyOnlyOnNewIssueMatch ==
    (\/ remote_state = "closed"
     \/ \E i \in DOMAIN calls : calls[i].op \in {"create_comment", "edit"})
        => /\ module = "github.Issue"
           /\ comments = 0
           /\ missing_python_h(title, body)

C5_Witness ==
    /\ remote_state = "closed"
    /\ exit = "exit0"
    /\ \E i \in DOMAIN calls : calls[i].op = "create_comment" /\ calls[i].ok

\* C6: a run on an item that already has comments, in which no API call
\* fails, issues no add-label, create-comment or close call and ends by
\* normal completion (exit 0).
C6_CommentEventCompletes ==
    (pc = "done" /\ comments > 0 /\ ~ApiFailed)
        => /\ exit = "exit0"
           /\ \A i \in DOMAIN calls : calls[i].op = "get_issue"

\* C7: the inference yields the pair (label, keyword) if and only if
\* keyword is listed under label in the catalog and keyword.lower() is a
\* substring of text.lower(); it yields nothing for the empty text.
C7_InferenceIsSubstringMatch ==
    pc = "guessed" =>
        LET map == labels_map(listdir)
        IN  /\ {guessed[i] : i \in DOMAIN guessed}
                  = UNION {{<<map[n].label, map[n].keywords[k]>> :
                               k \in {k \in DOMAIN map[n].keywords :
                                        str_in(lower(map[n].keywords[k]),
                                               lower(text))}} :
                           n \in DOMAIN map}
            /\ text = "" => guessed = <<>>

C7_Witness ==
    /\ pc = "guessed"
    /\ \E i, j \in DOMAIN guessed :
          /\ guessed[i] = <<"windows", "WinError">>
          /\ guessed[j] = <<"priority-high", "WinError">>
    /\ str_in("winerror", lower(text))
    /\ ~str_in("WinError", lower(text))

\* C8: once the "Type" line is being processed, in a run in which no API
\* call fails, every one of the seven substrings found in the lower-cased
\* line has its label proposed to the guard, whatever the guard did with
\* the labels proposed before it.
C8_EveryTypeLabelProposed ==
    (/\ pc = "done"
     /\ ~ApiFailed
     /\ \E i \in DOMAIN proposals : proposals[i].at = "type_labels")
        => LET r == re_search("* Type:", body)
           IN  \A n \in DOMAIN TYPE_LABELS :
                   str_in(TYPE_LABELS[n], lower(r.group))
                       => \E i \in DOMAIN proposals :
                              /\ proposals[i].at = "type_labels"
                              /\ proposals[i].label = TYPE_LABELS[n]

\* C9: an add_label() invocation whose candidate is the left label of an
\* illogical pair while issue.labels holds the right label issues no call,
\* leaves the labels unchanged and returns normally.
C9_GuardRejectionIsSkip ==
    \A i \in DOMAIN proposals : \A pr \in Pairs :
        (proposals[i].label = pr[1] /\ pr[2] \in proposals[i].known)
            => /\ proposals[i].result = "skipped"
               /\ exit # "TypeError"

\* C10: a failed API call is the last call of the run, which ends with the
\* uncaught error: after a failed create-comment the issue is not closed,
\* and every label attached earlier in the run stays attached.
C10_NoContinuationNoRollback ==
    /\ \A i \in DOMAIN calls :
          ~calls[i].ok => /\ i = Len(calls)
                          /\ pc = "done"
                          /\ exit = "GithubException"
    /\ (\E i \in DOMAIN calls : calls[i].op = "create_comment" /\ ~calls[i].ok)
          => /\ remote_state = "open"
             /\ \A i \in DOMAIN calls : calls[i].op # "edit"
    /\ fetched_labels \subseteq remote_labels
    /\ \A i \in DOMAIN calls :
          (calls[i].op = "add_to_labels" /\ calls[i].ok)
              => calls[i].arg \in remote_labels

C10_Witness ==
    /\ exit = "GithubException"
    /\ calls[Len(calls)].op = "create_comment"
    /\ ~calls[Len(calls)].ok
    /\ remote_state = "open"
    /\ \E i \in DOMAIN calls : calls[i].op = "add_to_labels" /\ calls[i].ok

====
